---- MODULE Spec2Model ----
(***************************************************************************)
(* Model of the HD44780 protocol decoder, decoders/hd44780/pd.py.          *)
(*                                                                         *)
(* The decoder is one sequential loop (Decoder.decode) that suspends only  *)
(* in self.wait().  One action of the model is the code that runs between  *)
(* two suspensions: FallingEdge is the return of wait({CLK: 'f'}) and      *)
(* everything up to the next wait, RisingEdge is the return of a           *)
(* wait({CLK: 'r'}) and everything up to the next wait({CLK: 'f'}).        *)
(***************************************************************************)
EXTENDS Integers, Sequences, FiniteSets, TLC

VARIABLES
    option,           \* self.options['mode']
    state,            \* self.state
    pc,               \* where decode() is suspended
    samplenum,        \* self.samplenum
    pins,             \* local pins: the sample returned by the last wait for a falling edge
    pins_first_half,  \* local pins_first_half
    start_sample,     \* local start_sample
    end_sample,       \* local end_sample
    val,              \* local val
    val_first_half,   \* local val_first_half
    val_second_half,  \* local val_second_half
    ann,              \* local ann: <<category, labels>>
    bound,            \* the locals of decode() that have been assigned
    out,              \* the calls of self.put, in order: (start, end, annotation)
    run,              \* history: which call of decode() this is, 1 or 2
    fed,              \* history: what each wait() of the first call returned, and
                      \* self.state and the output after the code that followed
    pos               \* history: how many entries of fed the second call was given

\* the history variables: decode() neither reads nor writes them
hist == <<run, fed, pos>>

vars == <<option, state, pc, samplenum, pins, pins_first_half, start_sample,
          end_sample, val, val_first_half, val_second_half, ann, bound, out,
          run, fed, pos>>

(***************************************************************************)
(* Bounds of the model.                                                    *)
(***************************************************************************)
\* the sample stream ends at this sample index
MaxSample == 6
\* the largest distance between two consecutive clock edges
MaxGap == 2
\* the sample stream of a call of decode() that is repeated ends at this index
MaxRunSample == 6
\* the sample streams of two calls of decode() that are compared end at this index
MaxTwinSample == 5

(***************************************************************************)
(* class PIN, class ANN                                                    *)
(***************************************************************************)
PIN_RS == 0
PIN_CLK == 1
PIN_BIT_4 == 2
PIN_BIT_5 == 3
PIN_BIT_6 == 4
PIN_BIT_7 == 5
PIN_RW == 6
PIN_BIT_0 == 7
PIN_BIT_1 == 8
PIN_BIT_2 == 9
PIN_BIT_3 == 10

ANN_CLEAR == 0
ANN_HOME == 1
ANN_ENTRY_MODE == 2
ANN_DISPLAY_CONTROL == 3
ANN_DISPLAY_SHIFT == 4
ANN_FUNCTION_SET == 5
ANN_SET_CGRAM_ADDR == 6
ANN_SET_DDRAM_ADDR == 7
ANN_READ_BF_AC == 8
ANN_MEM_WRITE == 9
ANN_MEM_READ == 10
ANN_STATE == 11
ANN_WARNING == 12

\* Decoder.annotations: (id, description), indexed from 1 here and from 0 in the code
annotations ==
    << <<"clear", "Clear display">>,
       <<"home", "Cursor home">>,
       <<"entry_mode", "Entry mode">>,
       <<"display_control", "Display control">>,
       <<"diplay_shift", "Display shift">>,
       <<"function_set", "Function set">>,
       <<"set_cgram_addr", "Set CGRAM address">>,
       <<"set_ddram_addr", "Set DDRAM address">>,
       <<"read_bf_ac", "Read busy flag and address counter">>,
       <<"mem_write", "Write to CGRAM or DDRAM">>,
       <<"mem_read", "Read from CGRAM or DDRAM">>,
       <<"state", "Controller state">>,
       <<"warning", "Warning">> >>

(***************************************************************************)
(* Samples.  A line is low (0), high (1) or anything else; a channel that  *)
(* is not connected reads as a value that is neither 0 nor 1.              *)
(***************************************************************************)
LineStates == {0, 1, 255}
PinIndex == 0 .. 10
DataPins == <<PIN_BIT_0, PIN_BIT_1, PIN_BIT_2, PIN_BIT_3,
              PIN_BIT_4, PIN_BIT_5, PIN_BIT_6, PIN_BIT_7>>

(***************************************************************************)
(* Python's integer operators, on naturals.                                *)
(***************************************************************************)
RECURSIVE Pow2(_)
Pow2(k) == IF k = 0 THEN 1 ELSE 2 * Pow2(k - 1)

ShiftL(a, k) == a * Pow2(k)
ShiftR(a, k) == a \div Pow2(k)

RECURSIVE BitAnd(_, _)
BitAnd(a, b) ==
    IF a = 0 \/ b = 0 THEN 0
    ELSE (IF a % 2 = 1 /\ b % 2 = 1 THEN 1 ELSE 0) + 2 * BitAnd(a \div 2, b \div 2)

RECURSIVE BitOr(_, _)
BitOr(a, b) ==
    IF a = 0 THEN b
    ELSE IF b = 0 THEN a
    ELSE (IF a % 2 = 1 \/ b % 2 = 1 THEN 1 ELSE 0) + 2 * BitOr(a \div 2, b \div 2)

(***************************************************************************)
(* Python's str.format conversions used by the decoder.                    *)
(***************************************************************************)
HexDigits == "0123456789abcdef"

RECURSIVE FormatHex(_)
\* '{:x}'
FormatHex(n) ==
    IF n < 16 THEN SubSeq(HexDigits, n + 1, n + 1)
    ELSE FormatHex(n \div 16) \o SubSeq(HexDigits, (n % 16) + 1, (n % 16) + 1)

RECURSIVE FormatBin(_)
\* '{:b}'
FormatBin(n) ==
    IF n < 2 THEN SubSeq(HexDigits, n + 1, n + 1)
    ELSE FormatBin(n \div 2) \o SubSeq(HexDigits, (n % 2) + 1, (n % 2) + 1)

RECURSIVE PadLeft(_, _)
\* a width in a format specification: numbers are right-aligned with spaces
PadLeft(s, w) == IF Len(s) < w THEN PadLeft(" " \o s, w) ELSE s

\* the printable ASCII characters 32..95 and 97..126 (a TLA+ string cannot hold
\* the grave accent, 96)
PrintableLow == " !\"#$%&'()*+,-./0123456789:;<=>?@ABCDEFGHIJKLMNOPQRSTUVWXYZ[\\]^_"
PrintableHigh == "abcdefghijklmnopqrstuvwxyz{|}~"

\* '{:c}': the one-character string of code point n.  A printable ASCII
\* character is itself; every other code point is also one character, written
\* "?" here since a TLA+ string cannot hold it.
FormatChar(n) ==
    IF n >= 32 /\ n <= 95 THEN SubSeq(PrintableLow, n - 31, n - 31)
    ELSE IF n >= 97 /\ n <= 126 THEN SubSeq(PrintableHigh, n - 96, n - 96)
    ELSE "?"

(***************************************************************************)
(* Decoder.decode_pins                                                     *)
(***************************************************************************)
\* [pins[i] if pins[i] in (0, 1) else 0 for i in [BIT_0, ..., BIT_7]]
DataBits(p) ==
    [k \in 1 .. 8 |-> IF p[DataPins[k]] \in {0, 1} THEN p[DataPins[k]] ELSE 0]

\* reversed(data)
Reversed(s) == [k \in 1 .. Len(s) |-> s[Len(s) + 1 - k]]

RECURSIVE Reduce(_, _)
\* reduce(lambda a, b: (a << 1) | b, ...) with the accumulator acc, over s
Reduce(acc, s) ==
    IF s = << >> THEN acc
    ELSE Reduce(BitOr(ShiftL(acc, 1), Head(s)), Tail(s))

\* decode_pins without reversed(): the data lines packed most significant first
decode_pins_msb_first(p) ==
    LET data == DataBits(p)
    IN  Reduce(Head(data), Tail(data))

decode_pins(p) ==
    LET data == DataBits(p)
        r == Reversed(data)
    IN  Reduce(Head(r), Tail(r))

(***************************************************************************)
(* Decoder.basic_annotation, Decoder.decode_write_command                  *)
(***************************************************************************)
\* basic_annotation without the one-character form
basic_annotation_no_short(n_ann, further_description) ==
    LET basic_ann_desc == annotations[n_ann + 1][2]
    IN  <<n_ann, <<basic_ann_desc>> \o further_description>>

basic_annotation(n_ann, further_description) ==
    LET basic_ann_desc == annotations[n_ann + 1][2]
    IN  <<n_ann,
          <<basic_ann_desc>> \o further_description \o <<SubSeq(basic_ann_desc, 1, 1)>> >>

\* entry mode set with the shift flag decoded from bit 1
EntryModeAnn_shift_bit1(v) ==
    LET inc == IF BitAnd(v, 1) # 0 THEN "inc" ELSE "dec"
        shift == IF BitAnd(v, 2) # 0 THEN "true" ELSE "false"
    IN  <<ANN_ENTRY_MODE,
          << "Entry mode: direction: " \o inc \o ", shift: " \o shift,
             "Dir: " \o inc \o ", shift: " \o shift,
             inc \o ", " \o shift,
             SubSeq(inc, 1, 1) \o ", " \o SubSeq(shift, 1, 1) >> >>

\* the annotation of a command byte entry mode set (lines 92-98)
EntryModeAnn(v) ==
    LET inc == IF BitAnd(v, 1) # 0 THEN "inc" ELSE "dec"
        shift == IF BitAnd(v, 0) # 0 THEN "true" ELSE "false"
    IN  <<ANN_ENTRY_MODE,
          << "Entry mode: direction: " \o inc \o ", shift: " \o shift,
             "Dir: " \o inc \o ", shift: " \o shift,
             inc \o ", " \o shift,
             SubSeq(inc, 1, 1) \o ", " \o SubSeq(shift, 1, 1) >> >>

\* the function set branch storing the option's name for 4-bit mode
FunctionSet_option_name(v) ==
    IF BitAnd(v, ShiftL(1, 4)) # 0 THEN
        [ann |-> <<ANN_FUNCTION_SET, <<"Function set", "Function Set: 8 bit mode", "F">> >>,
         state |-> "8bit"]
    ELSE
        [ann |-> <<ANN_FUNCTION_SET, <<"Function set", "Function Set: 4 bit mode", "F">> >>,
         state |-> "4bit"]

\* the function set branch entering 4-bit mode at the second nibble
FunctionSet_second_nibble(v) ==
    IF BitAnd(v, ShiftL(1, 4)) # 0 THEN
        [ann |-> <<ANN_FUNCTION_SET, <<"Function set", "Function Set: 8 bit mode", "F">> >>,
         state |-> "8bit"]
    ELSE
        [ann |-> <<ANN_FUNCTION_SET, <<"Function set", "Function Set: 4 bit mode", "F">> >>,
         state |-> "4bit_second_nibble"]

\* the function set branch with the test of bit 4 inverted
FunctionSet_inverted(v) ==
    IF BitAnd(v, ShiftL(1, 4)) = 0 THEN
        [ann |-> <<ANN_FUNCTION_SET, <<"Function set", "Function Set: 8 bit mode", "F">> >>,
         state |-> "8bit"]
    ELSE
        [ann |-> <<ANN_FUNCTION_SET, <<"Function set", "Function Set: 4 bit mode", "F">> >>,
         state |-> "4bit_first_nibble"]

\* lines 109-114: the function set branch
FunctionSet(v) ==
    IF BitAnd(v, ShiftL(1, 4)) # 0 THEN
        [ann |-> basic_annotation(ANN_FUNCTION_SET, <<"Function Set: 8 bit mode">>),
         state |-> "8bit"]
    ELSE
        [ann |-> basic_annotation(ANN_FUNCTION_SET, <<"Function Set: 4 bit mode">>),
         state |-> "4bit_first_nibble"]

\* the if/elif chain with a last test of 1<<8 and no else: a value of 256 or
\* more matches no branch and keeps the default annotation
CommandClass_no_else(v) ==
    IF v < ShiftL(1, 1) THEN ANN_CLEAR
    ELSE IF v < ShiftL(1, 2) THEN ANN_HOME
    ELSE IF v < ShiftL(1, 3) THEN ANN_ENTRY_MODE
    ELSE IF v < ShiftL(1, 4) THEN ANN_DISPLAY_CONTROL
    ELSE IF v < ShiftL(1, 5) THEN ANN_DISPLAY_SHIFT
    ELSE IF v < ShiftL(1, 6) THEN ANN_FUNCTION_SET
    ELSE IF v < ShiftL(1, 7) THEN ANN_SET_CGRAM_ADDR
    ELSE IF v < ShiftL(1, 8) THEN ANN_SET_DDRAM_ADDR
    ELSE ANN_WARNING

\* the if/elif chain with <= for <
CommandClass_le(v) ==
    IF v <= ShiftL(1, 1) THEN ANN_CLEAR
    ELSE IF v <= ShiftL(1, 2) THEN ANN_HOME
    ELSE IF v <= ShiftL(1, 3) THEN ANN_ENTRY_MODE
    ELSE IF v <= ShiftL(1, 4) THEN ANN_DISPLAY_CONTROL
    ELSE IF v <= ShiftL(1, 5) THEN ANN_DISPLAY_SHIFT
    ELSE IF v <= ShiftL(1, 6) THEN ANN_FUNCTION_SET
    ELSE IF v <= ShiftL(1, 7) THEN ANN_SET_CGRAM_ADDR
    ELSE ANN_SET_DDRAM_ADDR

\* the if/elif chain of decode_write_command: the branch taken for val, named
\* by the category the branch annotates
CommandClass(v) ==
    IF v < ShiftL(1, 1) THEN ANN_CLEAR
    ELSE IF v < ShiftL(1, 2) THEN ANN_HOME
    ELSE IF v < ShiftL(1, 3) THEN ANN_ENTRY_MODE
    ELSE IF v < ShiftL(1, 4) THEN ANN_DISPLAY_CONTROL
    ELSE IF v < ShiftL(1, 5) THEN ANN_DISPLAY_SHIFT
    ELSE IF v < ShiftL(1, 6) THEN ANN_FUNCTION_SET
    ELSE IF v < ShiftL(1, 7) THEN ANN_SET_CGRAM_ADDR
    ELSE ANN_SET_DDRAM_ADDR

\* line 86: the annotation ann holds before the if/elif chain
UnknownCommand(v) ==
    basic_annotation(ANN_WARNING, <<PadLeft(FormatBin(v), 8) \o ": Unknown command">>)

\* decode_write_command(val) called with self.state = st: the annotation it
\* returns and self.state when it returns
decode_write_command(v, st) ==
    LET c == CommandClass(v)
    IN  IF c = ANN_CLEAR THEN
            [ann |-> basic_annotation(ANN_CLEAR, <<"Clr">>), state |-> st]
        ELSE IF c = ANN_HOME THEN
            [ann |-> basic_annotation(ANN_HOME, <<"CH">>), state |-> st]
        ELSE IF c = ANN_ENTRY_MODE THEN
            [ann |-> EntryModeAnn(v), state |-> st]
        ELSE IF c = ANN_DISPLAY_CONTROL THEN
            [ann |-> basic_annotation(ANN_DISPLAY_CONTROL,
                         <<"Display control: <not implemented>">>),
             state |-> st]
        ELSE IF c = ANN_DISPLAY_SHIFT THEN
            [ann |-> basic_annotation(ANN_DISPLAY_SHIFT,
                         <<"Display shift: <not implemented>">>),
             state |-> st]
        ELSE IF c = ANN_FUNCTION_SET THEN
            FunctionSet(v)
        ELSE IF c = ANN_SET_CGRAM_ADDR THEN
            [ann |-> basic_annotation(ANN_SET_CGRAM_ADDR,
                         <<"Set CGRAM Address: 0x" \o PadLeft(FormatHex(BitAnd(v, 63)), 2)>>),
             state |-> st]
        ELSE IF c = ANN_SET_DDRAM_ADDR THEN
            [ann |-> basic_annotation(ANN_SET_DDRAM_ADDR,
                         <<"Set DDRAM Address: 0x" \o PadLeft(FormatHex(BitAnd(v, 127)), 2)>>),
             state |-> st]
        ELSE
            [ann |-> UnknownCommand(v), state |-> st]

(***************************************************************************)
(* Decoder.decode                                                          *)
(***************************************************************************)
\* the classification with a memory write also run through the command
\* decoder, for its effect on the mode
ClassifyLines_write_sets_mode(rs, rw, v, st) ==
    IF rs = 0 THEN
        IF rw = 1 THEN
            [ann |-> basic_annotation(ANN_READ_BF_AC, << >>), state |-> st]
        ELSE
            decode_write_command(v, st)
    ELSE
        IF rw = 1 THEN
            [ann |-> <<ANN_MEM_READ, <<"Read: <not implemented>">> >>, state |-> st]
        ELSE
            [ann |-> <<ANN_MEM_WRITE,
                       << "Write: 0x" \o FormatHex(v) \o ", '" \o FormatChar(v) \o "'",
                          "'" \o FormatChar(v) \o "'" >> >>,
             state |-> decode_write_command(v, st).state]

\* lines 157-170 with pins[PIN.RS] = rs and pins[PIN.RW] = rw: the annotation
\* of the completed byte v, and self.state afterwards
ClassifyLines(rs, rw, v, st) ==
    IF rs = 0 THEN
        IF rw = 1 THEN
            [ann |-> basic_annotation(ANN_READ_BF_AC, << >>), state |-> st]
        ELSE
            decode_write_command(v, st)
    ELSE
        IF rw = 1 THEN
            [ann |-> <<ANN_MEM_READ, <<"Read: <not implemented>">> >>, state |-> st]
        ELSE
            [ann |-> <<ANN_MEM_WRITE,
                       << "Write: 0x" \o FormatHex(v) \o ", '" \o FormatChar(v) \o "'",
                          "'" \o FormatChar(v) \o "'" >> >>,
             state |-> st]

\* the control lines read from the first-nibble sample when there is one
Classify_first_half(p, v, st) ==
    IF "pins_first_half" \in bound
    THEN ClassifyLines(pins_first_half[PIN_RS], pins_first_half[PIN_RW], v, st)
    ELSE ClassifyLines(p[PIN_RS], p[PIN_RW], v, st)

\* lines 157-170: the control lines are those of p, the sample the last wait
\* for a falling edge returned
Classify(p, v, st) == ClassifyLines(p[PIN_RS], p[PIN_RW], v, st)

\* the second sample added without the shift that drops its bits 0-3
Reassemble_no_shift(second, first) == second + first

\* the nibbles merged with | for +
Reassemble_or(second, first) == BitOr(ShiftR(second, 4), first)

\* line 150
Reassemble(second, first) == ShiftR(second, 4) + first

\* end_sample read before the wait for the rising edge returns
EndSample_stale(n) == samplenum

\* line 172: end_sample after the wait for the rising edge returned at index n
EndSample(n) == n

\* a sink that keeps only the latest annotation
Put_merge(o, s, e, a) ==
    IF o = << >> THEN <<[start |-> s, end |-> e, ann |-> a]>>
    ELSE [o EXCEPT ![Len(o)] = [start |-> s, end |-> e, ann |-> a]]

\* a sink that keeps the annotations latest first
Put_prepend(o, s, e, a) == <<[start |-> s, end |-> e, ann |-> a]>> \o o

\* line 173: self.put(start_sample, end_sample, self.out_ann, ann), the
\* annotation sink o keeping the calls in order
Put(o, s, e, a) == Append(o, [start |-> s, end |-> e, ann |-> a])

\* a sample that no wait has returned yet
NoPins == [i \in PinIndex |-> 0]

Init ==
    /\ option \in {"8bit", "4bit"}
    /\ state = "unset"
    /\ pc = "start"
    /\ samplenum = 0
    /\ pins = NoPins
    /\ pins_first_half = NoPins
    /\ start_sample = 0
    /\ end_sample = 0
    /\ val = 0
    /\ val_first_half = 0
    /\ val_second_half = 0
    /\ ann = << >>
    /\ bound = {}
    /\ out = << >>
    /\ run = 1
    /\ fed = << >>
    /\ pos = 0

\* a decode() that sets self.state only if no earlier call has set it
Start_keep_state ==
    /\ pc = "start"
    /\ state' = (IF state # "unset" THEN state
                 ELSE IF option = "8bit" THEN "8bit"
                 ELSE IF option = "4bit" THEN "4bit_first_nibble"
                 ELSE state)
    /\ ann' = << >>
    /\ bound' = bound \cup {"cmd", "ann"}
    /\ pc' = "wait_f"
    /\ UNCHANGED <<option, samplenum, pins, pins_first_half, start_sample, end_sample,
                   val, val_first_half, val_second_half, out>>

\* lines 127-132
Start ==
    /\ pc = "start"
    /\ state' = (IF option = "8bit" THEN "8bit"
                 ELSE IF option = "4bit" THEN "4bit_first_nibble"
                 ELSE state)
    /\ ann' = << >>
    /\ bound' = bound \cup {"cmd", "ann"}
    /\ pc' = "wait_f"
    /\ UNCHANGED <<option, samplenum, pins, pins_first_half, start_sample, end_sample,
                   val, val_first_half, val_second_half, out>>

\* lines 135-137 and 157-170: the falling edge at index n, sample p, handled
\* in state 8bit
EightBit(p, n) ==
    LET r == Classify(p, decode_pins(p), state)
    IN  /\ start_sample' = n
        /\ val' = decode_pins(p)
        /\ ann' = r.ann
        /\ state' = r.state
        /\ bound' = bound \cup {"pins", "start_sample", "val"}
        /\ pc' = "wait_r_put"
        /\ UNCHANGED <<pins_first_half, val_first_half, val_second_half>>

\* the first-nibble branch without the change of state
FourBitFirstNibble_no_advance(p, n) ==
    /\ start_sample' = n
    /\ pins_first_half' = p
    /\ val_first_half' = decode_pins(p)
    /\ state' = state
    /\ bound' = bound \cup {"pins", "start_sample", "pins_first_half", "val_first_half"}
    /\ pc' = "wait_r_first"
    /\ UNCHANGED <<val, val_second_half, ann>>

\* the first-nibble branch continuing without the wait for the rising edge
FourBitFirstNibble_no_wait(p, n) ==
    /\ start_sample' = n
    /\ pins_first_half' = p
    /\ val_first_half' = decode_pins(p)
    /\ state' = "4bit_second_nibble"
    /\ bound' = bound \cup {"pins", "start_sample", "pins_first_half", "val_first_half"}
    /\ pc' = "wait_f"
    /\ UNCHANGED <<val, val_second_half, ann>>

\* lines 139-145: handled in state 4bit_first_nibble, up to the wait for the
\* rising edge
FourBitFirstNibble(p, n) ==
    /\ start_sample' = n
    /\ pins_first_half' = p
    /\ val_first_half' = decode_pins(p)
    /\ state' = "4bit_second_nibble"
    /\ bound' = bound \cup {"pins", "start_sample", "pins_first_half", "val_first_half"}
    /\ pc' = "wait_r_first"
    /\ UNCHANGED <<val, val_second_half, ann>>

\* lines 147-151 and 157-170: handled in state 4bit_second_nibble.  Reading
\* val_first_half when it was never assigned raises UnboundLocalError and ends
\* decode().
FourBitSecondNibble(p, n) ==
    IF "val_first_half" \in bound THEN
        LET v == Reassemble(decode_pins(p), val_first_half)
            r == Classify(p, v, "4bit_first_nibble")
        IN  /\ val_second_half' = decode_pins(p)
            /\ val' = v
            /\ ann' = r.ann
            /\ state' = r.state
            /\ bound' = bound \cup {"pins", "val_second_half", "val"}
            /\ pc' = "wait_r_put"
            /\ UNCHANGED <<start_sample, pins_first_half, val_first_half>>
    ELSE
        /\ val_second_half' = decode_pins(p)
        /\ bound' = bound \cup {"pins", "val_second_half"}
        /\ pc' = "aborted"
        /\ UNCHANGED <<state, start_sample, pins_first_half, val, val_first_half, ann>>

\* lines 153-155: handled in any other state, up to the wait for the rising edge
Ignored(p, n) ==
    /\ bound' = bound \cup {"pins"}
    /\ pc' = "wait_r_ignore"
    /\ UNCHANGED <<state, start_sample, pins_first_half, val, val_first_half,
                   val_second_half, ann>>

\* lines 134-170: wait({CLK: 'f'}) returns the sample p at sample index n; the
\* code runs up to the next wait
FallingEdge(p, n) ==
    /\ pc = "wait_f"
    /\ n > samplenum
    /\ p[PIN_CLK] = 0
    /\ samplenum' = n
    /\ pins' = p
    /\ UNCHANGED <<option, end_sample, out>>
    /\ IF state = "8bit" THEN EightBit(p, n)
       ELSE IF state = "4bit_first_nibble" THEN FourBitFirstNibble(p, n)
       ELSE IF state = "4bit_second_nibble" THEN FourBitSecondNibble(p, n)
       ELSE Ignored(p, n)

\* a decode loop that, after the rising edge of a completed transaction, waits
\* for a further rising edge instead of emitting the annotation
RisingEdge_rewait(n) ==
    /\ pc \in {"wait_r_first", "wait_r_ignore", "wait_r_put"}
    /\ n > samplenum
    /\ samplenum' = n
    /\ pc' = IF pc = "wait_r_put" THEN "wait_r_put" ELSE "wait_f"
    /\ UNCHANGED <<option, state, pins, pins_first_half, start_sample,
                   end_sample, val, val_first_half, val_second_half, ann,
                   bound, out>>

\* lines 144-145, 154-155, 171-173: a wait({CLK: 'r'}) returns at sample index n
RisingEdge(n) ==
    /\ pc \in {"wait_r_first", "wait_r_ignore", "wait_r_put"}
    /\ n > samplenum
    /\ samplenum' = n
    /\ UNCHANGED <<option, state, pins, pins_first_half, start_sample, val,
                   val_first_half, val_second_half, ann>>
    /\ IF pc = "wait_r_put" THEN
           IF "start_sample" \in bound THEN
               /\ end_sample' = EndSample(n)
               /\ out' = Put(out, start_sample, EndSample(n), ann)
               /\ bound' = bound \cup {"end_sample"}
               /\ pc' = "wait_f"
           ELSE
               /\ end_sample' = EndSample(n)
               /\ bound' = bound \cup {"end_sample"}
               /\ pc' = "aborted"
               /\ UNCHANGED out
       ELSE
           /\ pc' = "wait_f"
           /\ UNCHANGED <<end_sample, bound, out>>

(***************************************************************************)
(* The sample source: what wait() may return.                              *)
(***************************************************************************)
\* the data bit carried by data line i
PinBit(i) == CHOOSE k \in 0 .. 7 : DataPins[k + 1] = i

\* the sample at a clock edge clk with the data lines carrying byte; with
\* lowx, the optional lines BIT_0 .. BIT_3 are not connected
Sample(rs, rw, byte, clk, lowx) ==
    [i \in PinIndex |->
        IF i = PIN_RS THEN rs
        ELSE IF i = PIN_CLK THEN clk
        ELSE IF i = PIN_RW THEN rw
        ELSE IF lowx /\ PinBit(i) < 4 THEN 255
        ELSE (byte \div Pow2(PinBit(i))) % 2]

\* the data bytes of the decode loop's specification: a clear display, the
\* two function sets and a set DDRAM address
LoopBytes == {1, 32, 48, 255}

LoopSamples ==
    {Sample(rs, rw, b, 0, FALSE) : rs \in {0, 1}, rw \in {0, 1}, b \in LoopBytes}
    \cup {Sample(0, 255, b, 0, TRUE) : b \in {32, 48}}

\* the sample indices the next edge may have
NextEdges == (samplenum + 1) .. (IF samplenum + MaxGap < MaxSample
                                 THEN samplenum + MaxGap ELSE MaxSample)

Next ==
    \/ Start /\ UNCHANGED hist
    \/ \E p \in LoopSamples, n \in NextEdges :
           FallingEdge(p, n) /\ UNCHANGED hist
    \/ \E n \in NextEdges : RisingEdge(n) /\ UNCHANGED hist

Spec == Init /\ [][Next]_vars

\* the decode loop run by a scheduler that starts decode() and by a sample
\* source that returns every rising edge decode() waits for, as long as the
\* sample stream has not ended; falling edges may stop arriving at any time
SpecLive ==
    /\ Init
    /\ [][Next]_vars
    /\ WF_vars(Start /\ UNCHANGED hist)
    /\ WF_vars(\E n \in NextEdges : RisingEdge(n) /\ UNCHANGED hist)

(***************************************************************************)
(* One transaction over every byte.  In 8-bit mode the falling edge        *)
(* returns any byte with any control lines.  In 4-bit mode the first       *)
(* falling edge returns any byte with the control lines both low or both   *)
(* high, the second a high nibble of 0, 1, 8 or 15 with any control lines, *)
(* so that the reassembled value takes every value it can (0 .. 270).      *)
(***************************************************************************)
ByteSamples ==
    {Sample(c, c, b, 0, FALSE) : c \in {0, 1}, b \in 0 .. 255}

SecondSamples ==
    {Sample(rs, rw, b, 0, FALSE) : rs \in {0, 1}, rw \in {0, 1}, b \in {0, 16, 128, 240}}

EightBitSamples ==
    {Sample(rs, rw, b, 0, FALSE) : rs \in {0, 1}, rw \in {0, 1}, b \in 0 .. 255}

NextByte ==
    \/ Start /\ UNCHANGED hist
    \/ /\ out = << >>
       /\ \E p \in (IF state = "4bit_second_nibble" THEN SecondSamples
                    ELSE IF state = "8bit" THEN EightBitSamples
                    ELSE ByteSamples) :
              FallingEdge(p, samplenum + 1)
       /\ UNCHANGED hist
    \/ RisingEdge(samplenum + 1) /\ UNCHANGED hist

SpecByte == Init /\ [][NextByte]_vars

(***************************************************************************)
(* One 4-bit transaction over every pair of bytes, as a memory write.      *)
(***************************************************************************)
NibbleSamples == {Sample(1, 0, b, 0, FALSE) : b \in 0 .. 255}

InitNibble == Init /\ option = "4bit"

NextNibble ==
    \/ Start /\ UNCHANGED hist
    \/ /\ out = << >>
       /\ \E p \in NibbleSamples : FallingEdge(p, samplenum + 1)
       /\ UNCHANGED hist
    \/ RisingEdge(samplenum + 1) /\ UNCHANGED hist

SpecNibble == InitNibble /\ [][NextNibble]_vars

(***************************************************************************)
(* The first falling edge over every sample: each line low, high or        *)
(* neither.                                                                *)
(***************************************************************************)
LineSamples == {p \in [PinIndex -> LineStates] : p[PIN_CLK] = 0}

NextPins ==
    \/ Start /\ UNCHANGED hist
    \/ /\ samplenum = 0
       /\ \E p \in LineSamples : FallingEdge(p, 1)
       /\ UNCHANGED hist

SpecPins == Init /\ [][NextPins]_vars

(***************************************************************************)
(* Two calls of decode() given the same sample stream.  The first call     *)
(* records what each wait() returned; it ends when the sample stream ends, *)
(* at any wait().  The second call is given the recorded edges again.      *)
(***************************************************************************)
\* the data bytes of the repeated stream: zero, the two function sets, and a
\* byte with every bit set
RunBytes == {0, 32, 48, 255}

RunSamples == {Sample(rs, 0, b, 0, FALSE) : rs \in {0, 1}, b \in RunBytes}

\* the sample indices the next edge of the repeated stream may have
RunEdges == (samplenum + 1) .. (IF samplenum + MaxGap < MaxRunSample
                                THEN samplenum + MaxGap ELSE MaxRunSample)

\* the first call's wait({CLK: 'f'}) returns sample p at index n
FeedFalling(p, n) ==
    /\ run = 1
    /\ FallingEdge(p, n)
    /\ fed' = Append(fed, [edge |-> "f", pins |-> p, samplenum |-> n,
                           state |-> state', out |-> out'])
    /\ UNCHANGED <<run, pos>>

\* the first call's wait({CLK: 'r'}) returns at index n
FeedRising(n) ==
    /\ run = 1
    /\ RisingEdge(n)
    /\ fed' = Append(fed, [edge |-> "r", pins |-> NoPins, samplenum |-> n,
                           state |-> state', out |-> out'])
    /\ UNCHANGED <<run, pos>>

\* the first call of decode() ends in a wait() and decode() is called again;
\* the locals of the new call are new and self.state becomes st
EndRun(st) ==
    /\ run = 1
    /\ pc \in {"wait_f", "wait_r_first", "wait_r_ignore", "wait_r_put"}
    /\ run' = 2
    /\ pos' = 0
    /\ state' = st
    /\ pc' = "start"
    /\ samplenum' = 0
    /\ pins' = NoPins
    /\ pins_first_half' = NoPins
    /\ start_sample' = 0
    /\ end_sample' = 0
    /\ val' = 0
    /\ val_first_half' = 0
    /\ val_second_half' = 0
    /\ ann' = << >>
    /\ bound' = {}
    /\ out' = << >>
    /\ UNCHANGED <<option, fed>>

\* lines 62-63: the same Decoder is reset and used again; reset() leaves
\* self.state as the first call left it
Restart == EndRun(state)

\* lines 59-60: the second call is made on a new Decoder
Fresh == EndRun("unset")

\* the second call's wait({CLK: 'f'}) returns what the first call's returned
ReplayFalling ==
    /\ run = 2
    /\ pos < Len(fed)
    /\ fed[pos + 1].edge = "f"
    /\ FallingEdge(fed[pos + 1].pins, fed[pos + 1].samplenum)
    /\ pos' = pos + 1
    /\ UNCHANGED <<run, fed>>

\* the second call's wait({CLK: 'r'}) returns what the first call's returned
ReplayRising ==
    /\ run = 2
    /\ pos < Len(fed)
    /\ fed[pos + 1].edge = "r"
    /\ RisingEdge(fed[pos + 1].samplenum)
    /\ pos' = pos + 1
    /\ UNCHANGED <<run, fed>>

NextRerun ==
    \/ Start /\ UNCHANGED hist
    \/ \E p \in RunSamples, n \in RunEdges : FeedFalling(p, n)
    \/ \E n \in RunEdges : FeedRising(n)
    \/ Restart
    \/ ReplayFalling
    \/ ReplayRising

SpecRerun == Init /\ [][NextRerun]_vars

(***************************************************************************)
(* Two calls of decode() in 4-bit mode, on two Decoders, given sample      *)
(* streams that differ at most in the lines BIT_0 .. BIT_3 of the samples  *)
(* the first call took as second nibbles.                                  *)
(***************************************************************************)
LowPins == {PIN_BIT_0, PIN_BIT_1, PIN_BIT_2, PIN_BIT_3}

\* the samples that differ from p at most in the lines BIT_0 .. BIT_3
LowTwins(p) ==
    {[i \in PinIndex |-> IF i \in LowPins THEN low[i] ELSE p[i]] :
        low \in [LowPins -> LineStates]}

\* self.state of the first call when it was given entry k of fed
FedMode(k) == IF k = 1 THEN "4bit_first_nibble" ELSE fed[k - 1].state

\* the second call's wait({CLK: 'f'}) returns the sample the first call's
\* returned, with any lines BIT_0 .. BIT_3 when that was a second nibble
TwinFalling ==
    /\ run = 2
    /\ pos < Len(fed)
    /\ fed[pos + 1].edge = "f"
    /\ \E q \in (IF FedMode(pos + 1) = "4bit_second_nibble"
                 THEN LowTwins(fed[pos + 1].pins) ELSE {fed[pos + 1].pins}) :
           FallingEdge(q, fed[pos + 1].samplenum)
    /\ pos' = pos + 1
    /\ UNCHANGED <<run, fed>>

NextTwin ==
    \/ Start /\ UNCHANGED hist
    \/ /\ samplenum < MaxTwinSample
       /\ \E p \in RunSamples : FeedFalling(p, samplenum + 1)
    \/ /\ samplenum < MaxTwinSample
       /\ FeedRising(samplenum + 1)
    \/ Fresh
    \/ TwinFalling
    \/ ReplayRising

SpecTwin == InitNibble /\ [][NextTwin]_vars

(***************************************************************************)
(* Properties.                                                             *)
(***************************************************************************)
Last(s) == s[Len(s)]

RECURSIVE LineSum(_, _, _)
\* the sum of 2^k over the bits k .. 7 whose data line in p is high
LineSum(p, lines, k) ==
    IF k > 7 THEN 0
    ELSE (IF p[lines[k + 1]] = 1 THEN Pow2(k) ELSE 0) + LineSum(p, lines, k + 1)

\* the data line of each bit, 0 first
BitLine == <<PIN_BIT_0, PIN_BIT_1, PIN_BIT_2, PIN_BIT_3,
             PIN_BIT_4, PIN_BIT_5, PIN_BIT_6, PIN_BIT_7>>

\* the byte the high data lines of p spell
LineByte(p) == LineSum(p, BitLine, 0)

RECURSIVE HighestBit(_)
\* the index of the highest set bit of v >= 1
HighestBit(v) == IF v < 2 THEN 0 ELSE 1 + HighestBit(v \div 2)

\* a byte has been completed and classified, and the wait for the rising edge
\* that ends it has not returned
Completed == pc = "wait_r_put"

\* the annotation of the last completed byte has just been emitted
JustEmitted == pc = "wait_f" /\ out # << >> /\ end_sample = samplenum

\* the falling edges that complete a byte
CompletingModes == {"8bit", "4bit_second_nibble"}

\* C1: exactly one annotation is emitted per completed transaction.  A falling
\* edge handled in 8bit or in 4bit_second_nibble emits nothing itself and leads
\* to the wait for the rising edge; the return of that wait appends exactly one
\* annotation, the one classified at the falling edge, and leads back to the
\* wait for a falling edge; no other step emits, and that wait is entered
\* only from a completing falling edge.
C1_OnePutPerTransaction ==
    [][ /\ (pc = "wait_f" /\ state \in CompletingModes /\ samplenum' # samplenum)
            => (pc' = "wait_r_put" /\ out' = out)
        /\ (pc = "wait_r_put" /\ samplenum' # samplenum)
            => /\ pc' = "wait_f"
               /\ Len(out') = Len(out) + 1
               /\ SubSeq(out', 1, Len(out)) = out
               /\ Last(out').ann = ann
        /\ (pc # "wait_r_put") => out' = out
        /\ (pc' = "wait_r_put" /\ pc # "wait_r_put")
            => (pc = "wait_f" /\ state \in CompletingModes)
      ]_vars

\* two transactions, one of them in 4-bit mode, have been completed and emitted
C1_Witness ==
    /\ pc = "wait_f"
    /\ Len(out) = 2
    /\ "val_second_half" \in bound
    /\ out[1].ann # out[2].ann

\* C2 as stated: the 4-bit value is (b >> 4) + (a & 0xF), a the byte of the
\* first-nibble sample and b the byte of the second-nibble sample.
C2_Original ==
    (Completed /\ option = "4bit")
        => val = ShiftR(val_second_half, 4) + BitAnd(val_first_half, 15)

\* C2 amended: the 4-bit value is (b >> 4) + a, with a the whole byte of the
\* first-nibble sample: its bits 4-7 are added in, not masked off.
C2_Reassembled ==
    (Completed /\ option = "4bit")
        => /\ val_first_half = LineByte(pins_first_half)
           /\ val_second_half = LineByte(pins)
           /\ val = (LineByte(pins) \div 16) + LineByte(pins_first_half)

\* a first-nibble byte with bits 4-7 set has been combined with a second nibble
C2_Witness ==
    /\ Completed
    /\ option = "4bit"
    /\ val_first_half = 165
    /\ val_second_half = 240
    /\ val = 180

\* C3: after a completed command write of a value in [32, 64), in either
\* bus-width mode, the mode at the next falling edge is 8bit if bit 4 of the
\* value is set and 4bit_first_nibble otherwise.
C3_FunctionSetMode ==
    ((Completed \/ JustEmitted)
        /\ pins[PIN_RS] = 0 /\ pins[PIN_RW] # 1 /\ val \in 32 .. 63)
        => state = (IF (val \div 16) % 2 = 1 THEN "8bit" ELSE "4bit_first_nibble")

\* a function set received in 4-bit mode has selected 8-bit: the decoder waits
\* for the next falling edge in 8bit
C3_Witness ==
    /\ JustEmitted
    /\ option = "4bit"
    /\ pins[PIN_RS] = 0 /\ pins[PIN_RW] = 0
    /\ val = 48
    /\ Last(out).ann[1] = ANN_FUNCTION_SET
    /\ state = "8bit"

\* the category C4 gives a command write of v
C4_Category(v) ==
    IF v < 2 THEN ANN_CLEAR
    ELSE <<ANN_HOME, ANN_ENTRY_MODE, ANN_DISPLAY_CONTROL, ANN_DISPLAY_SHIFT,
           ANN_FUNCTION_SET, ANN_SET_CGRAM_ADDR, ANN_SET_DDRAM_ADDR>>
             [IF HighestBit(v) > 7 THEN 7 ELSE HighestBit(v)]

\* C4: the category of a command write is decided by the highest set bit of
\* the value: v < 2 clear, [2,4) home, [4,8) entry mode, [8,16) display
\* control, [16,32) display shift, [32,64) function set, [64,128) set CGRAM
\* address, v >= 128 set DDRAM address.
C4_CommandPartition ==
    (Completed /\ pins[PIN_RS] = 0 /\ pins[PIN_RW] # 1)
        => ann[1] = C4_Category(val)

\* a command write of 64, the lowest set-CGRAM-address value, reassembled in
\* 4-bit mode
C4_Witness ==
    /\ Completed
    /\ option = "4bit"
    /\ pins[PIN_RS] = 0 /\ pins[PIN_RW] = 0
    /\ val = 64
    /\ ann[1] = ANN_SET_CGRAM_ADDR

\* C5: the classification path is selected by the register-select and
\* read/write lines of the sample that completed the byte (in 4-bit mode the
\* second-nibble sample), whatever the value: command and read give the busy
\* flag read, command and write one of the eight command categories, data and
\* read the memory read, data and write the memory write.
C5_ClassificationPath ==
    Completed
        => IF pins[PIN_RS] = 0
           THEN IF pins[PIN_RW] = 1
                THEN ann[1] = ANN_READ_BF_AC
                ELSE ann[1] \in ANN_CLEAR .. ANN_SET_DDRAM_ADDR
           ELSE IF pins[PIN_RW] = 1
                THEN ann[1] = ANN_MEM_READ
                ELSE ann[1] = ANN_MEM_WRITE

\* a 4-bit byte whose first-nibble sample has both control lines high and
\* whose second-nibble sample has both low is classified as a command write
C5_Witness ==
    /\ Completed
    /\ option = "4bit"
    /\ pins_first_half[PIN_RS] = 1 /\ pins_first_half[PIN_RW] = 1
    /\ pins[PIN_RS] = 0 /\ pins[PIN_RW] = 0
    /\ ann[1] = ANN_DISPLAY_CONTROL

\* C6: an annotation spans from the falling edge at which its transaction
\* began (the falling edge handled in 8bit or in 4bit_first_nibble) to the
\* first rising edge after the byte was completed, and start < end.
\* start_sample is written at exactly those falling edges, and the annotation
\* emitted carries it and the index of the rising edge that emits it.
C6_AnnotationSpan ==
    [][ /\ IF pc = "wait_f" /\ samplenum' # samplenum
              /\ state \in {"8bit", "4bit_first_nibble"}
           THEN start_sample' = samplenum'
           ELSE start_sample' = start_sample
        /\ out' # out
            => /\ pc = "wait_r_put"
               /\ Last(out').start = start_sample
               /\ Last(out').end = samplenum'
               /\ Last(out').start < Last(out').end
      ]_vars

\* a 4-bit annotation: it spans both nibbles' clock pulses
C6_Witness ==
    /\ option = "4bit"
    /\ Len(out) >= 1
    /\ out[1].end >= out[1].start + 3

\* C7: the annotations are emitted in transaction order: start samples never
\* decrease and the ranges of consecutive annotations do not overlap, also
\* across function sets that switch the bus width.
C7_EmissionOrder ==
    \A i \in 1 .. Len(out) - 1 :
        /\ out[i].start <= out[i + 1].start
        /\ out[i].end < out[i + 1].start

\* an 8-bit function set selected 4-bit mode and a 4-bit transaction followed
C7_Witness ==
    /\ option = "8bit"
    /\ Len(out) = 2
    /\ out[1].ann[1] = ANN_FUNCTION_SET
    /\ "val_second_half" \in bound
    /\ out[2].end >= out[2].start + 3

\* C8: the value of every completed transaction lies in 0 .. 255.
C8_ValueIsByte ==
    Completed => val \in 0 .. 255

\* C9: decode_pins returns the byte in 0 .. 255 whose bit i is 1 exactly when
\* data line BIT_i is high, whatever the other lines and the mode.
C9_SampleToByte ==
    "pins" \in bound
        => LET r == IF option = "8bit" THEN val ELSE val_first_half
           IN  /\ r \in 0 .. 255
               /\ \A k \in 0 .. 7 : ((r \div Pow2(k)) % 2 = 1) <=> (pins[BitLine[k + 1]] = 1)

\* a first-nibble sample with indeterminate data and control lines
C9_Witness ==
    /\ option = "4bit"
    /\ "pins" \in bound
    /\ pins[PIN_BIT_0] = 255 /\ pins[PIN_BIT_1] = 1 /\ pins[PIN_BIT_2] = 0
    /\ pins[PIN_BIT_3] = 255 /\ pins[PIN_BIT_4] = 0 /\ pins[PIN_BIT_5] = 255
    /\ pins[PIN_BIT_6] = 0 /\ pins[PIN_BIT_7] = 1
    /\ pins[PIN_RS] = 255 /\ pins[PIN_RW] = 255
    /\ val_first_half = 130

\* C10 as stated: every emitted annotation carries 2 to 4 labels, the last a
\* single character.
C10_Original ==
    \A i \in 1 .. Len(out) :
        LET labels == out[i].ann[2]
        IN  Len(labels) \in 2 .. 4 /\ Len(Last(labels)) = 1

\* C10 amended: every emitted annotation carries 1 to 4 labels.  A busy flag
\* read and a command write other than entry mode set carry 2 or 3, the last a
\* single character; an entry mode set carries 4, the last of 4 characters; a
\* memory read carries 1; a memory write carries 2, the last of 3 characters.
C10_Labels ==
    \A i \in 1 .. Len(out) :
        LET c == out[i].ann[1]
            labels == out[i].ann[2]
        IN  /\ Len(labels) \in 1 .. 4
            /\ (c \in (ANN_CLEAR .. ANN_READ_BF_AC) \ {ANN_ENTRY_MODE})
                => (Len(labels) \in 2 .. 3 /\ Len(Last(labels)) = 1)
            /\ c = ANN_ENTRY_MODE => (Len(labels) = 4 /\ Len(Last(labels)) = 4)
            /\ c = ANN_MEM_READ => Len(labels) = 1
            /\ c = ANN_MEM_WRITE => (Len(labels) = 2 /\ Len(Last(labels)) = 3)

\* the memory write of 0x41 has been emitted
C10_Witness ==
    /\ out # << >>
    /\ Last(out).ann = <<ANN_MEM_WRITE, <<"Write: 0x41, 'A'", "'A'">> >>

\* a command write has been completed
CommandWrite == Completed /\ pins[PIN_RS] = 0 /\ pins[PIN_RW] # 1

\* the value of a hexadecimal digit
HexValue(c) == CHOOSE d \in 0 .. 15 : SubSeq("0123456789abcdef", d + 1, d + 1) = c

RECURSIVE ParseHex(_)
\* the number a hexadecimal numeral spells, padding spaces skipped
ParseHex(s) ==
    IF Len(s) = 0 THEN 0
    ELSE IF SubSeq(s, Len(s), Len(s)) = " " THEN ParseHex(SubSeq(s, 1, Len(s) - 1))
    ELSE 16 * ParseHex(SubSeq(s, 1, Len(s) - 1)) + HexValue(SubSeq(s, Len(s), Len(s)))

\* the address an address-setting label reports after its prefix
ReportedAddress(label, prefix) == ParseHex(SubSeq(label, Len(prefix) + 1, Len(label)))

\* C11: the fields decoded for command writes.  An entry mode set reports
\* direction inc exactly when bit 0 of the value is set and shift false
\* whatever bit 1 is; a set CGRAM address reports the value modulo 64; a set
\* DDRAM address reports the value modulo 128.
C11_CommandFields ==
    CommandWrite
        => /\ val \in 4 .. 7
               => LET dir == IF val % 2 = 1 THEN "inc" ELSE "dec"
                  IN  ann[2] = << "Entry mode: direction: " \o dir \o ", shift: false",
                                  "Dir: " \o dir \o ", shift: false",
                                  dir \o ", false",
                                  SubSeq(dir, 1, 1) \o ", f" >>
           /\ val \in 64 .. 127
               => /\ SubSeq(ann[2][2], 1, 21) = "Set CGRAM Address: 0x"
                  /\ ReportedAddress(ann[2][2], "Set CGRAM Address: 0x") = val % 64
           /\ val >= 128
               => /\ SubSeq(ann[2][2], 1, 21) = "Set DDRAM Address: 0x"
                  /\ ReportedAddress(ann[2][2], "Set DDRAM Address: 0x") = val % 128

\* the command write 0x60 reports the CGRAM address 0x20
C11_Witness ==
    /\ CommandWrite
    /\ val = 96
    /\ ann = <<ANN_SET_CGRAM_ADDR,
               <<"Set CGRAM address", "Set CGRAM Address: 0x20", "S">> >>

\* C12: no emitted annotation has the category warning: every value that
\* reaches decode_write_command matches a branch of its if/elif chain.
C12_NoWarning ==
    /\ \A i \in 1 .. Len(out) : out[i].ann[1] # ANN_WARNING
    /\ CommandWrite => (ann[1] # ANN_WARNING /\ ann # UnknownCommand(val))

\* the largest value the 4-bit reassembly produces has been emitted as a
\* command write
C12_Witness ==
    /\ JustEmitted
    /\ pins[PIN_RS] = 0 /\ pins[PIN_RW] = 0
    /\ val = 270
    /\ Last(out).ann[1] = ANN_SET_DDRAM_ADDR

\* the three modes of the decoder
Modes == {"8bit", "4bit_first_nibble", "4bit_second_nibble"}

\* decode() is suspended in a wait for a rising edge
RisingWaits == {"wait_r_first", "wait_r_ignore", "wait_r_put"}

\* the sample q completes a function set command write of value v
IsFunctionSet(q, v) == q[PIN_RS] = 0 /\ q[PIN_RW] # 1 /\ v \in 32 .. 63

\* C15: in 4-bit mode the nibble sub-state alternates.  A falling edge handled
\* in 4bit_first_nibble records the sample's byte as the pending nibble, sets
\* the mode to 4bit_second_nibble and emits nothing, and neither does the
\* rising edge after it; the next falling edge is handled in
\* 4bit_second_nibble, completes the byte and leaves the mode at
\* 4bit_first_nibble unless the byte is a function set command write with
\* bit 4 set, which leaves 8bit.
C15_NibbleAlternation ==
    [][ /\ (pc = "wait_f" /\ state = "4bit_first_nibble" /\ samplenum' # samplenum)
            => /\ pc' = "wait_r_first"
               /\ state' = "4bit_second_nibble"
               /\ val_first_half' = LineByte(pins')
               /\ out' = out
        /\ (pc = "wait_r_first" /\ samplenum' # samplenum)
            => /\ pc' = "wait_f"
               /\ state' = "4bit_second_nibble"
               /\ val_first_half' = val_first_half
               /\ out' = out
        /\ (pc = "wait_f" /\ state = "4bit_second_nibble" /\ samplenum' # samplenum)
            => /\ pc' = "wait_r_put"
               /\ state' = (IF IsFunctionSet(pins', val') /\ (val' \div 16) % 2 = 1
                            THEN "8bit" ELSE "4bit_first_nibble")
      ]_vars

\* after one complete 4-bit transaction, the first nibble of the next one has
\* been recorded
C15_Witness ==
    /\ option = "4bit"
    /\ Len(out) = 1
    /\ pc = "wait_r_first"
    /\ state = "4bit_second_nibble"

\* the bus width of a mode
Width(st) == IF st = "8bit" THEN 8 ELSE 4

\* C16: the bus width changes only through a function set command write.  A
\* step that completes any other transaction leaves 8bit at 8bit and returns
\* 4-bit mode to 4bit_first_nibble; no other step changes the width.
C16_WidthFrame ==
    [][ pc # "start"
        => /\ (pc = "wait_f" /\ state \in CompletingModes /\ samplenum' # samplenum
                  /\ ~IsFunctionSet(pins', val'))
               => state' = (IF state = "8bit" THEN "8bit" ELSE "4bit_first_nibble")
           /\ Width(state') # Width(state)
               => (pc = "wait_f" /\ state \in CompletingModes /\ IsFunctionSet(pins', val'))
      ]_vars

\* a memory write of 0x30, the function set pattern for 8-bit, received in
\* 4-bit mode has left the decoder in 4-bit mode
C16_Witness ==
    /\ JustEmitted
    /\ option = "4bit"
    /\ pins[PIN_RS] = 1 /\ pins[PIN_RW] = 0
    /\ val = 48
    /\ state = "4bit_first_nibble"

\* C17: the waits alternate, starting with a falling edge: the return of a
\* wait for a falling edge leads, in every branch, to one wait for a rising
\* edge, and the return of that wait leads to the next wait for a falling
\* edge; an annotation is emitted only by the step that follows the return of
\* a wait for a rising edge.
C17_WaitAlternation ==
    [][ /\ pc = "start" => pc' = "wait_f"
        /\ pc = "wait_f"
            => pc' = (IF state = "4bit_first_nibble" THEN "wait_r_first"
                      ELSE IF state \in CompletingModes THEN "wait_r_put"
                      ELSE "wait_r_ignore")
        /\ pc \in RisingWaits => pc' = "wait_f"
        /\ out' # out => pc \in RisingWaits
      ]_vars

\* a 4-bit function set selected 8-bit mode and an 8-bit transaction followed:
\* three falling and three rising edges, through all three branches
C17_Witness ==
    /\ option = "4bit"
    /\ state = "8bit"
    /\ Len(out) = 2
    /\ pc = "wait_f"

\* C19: once decode() has started the mode is one of 8bit, 4bit_first_nibble
\* and 4bit_second_nibble, the ignore branch is never taken, and the mode is
\* 4bit_second_nibble only from a falling edge handled in 4bit_first_nibble to
\* the next falling edge.
C19_ModeDomain ==
    /\ pc # "start" => state \in Modes
    /\ pc # "wait_r_ignore"
    /\ state = "4bit_second_nibble"
        => /\ pc \in {"wait_r_first", "wait_f"}
           /\ "pins_first_half" \in bound
           /\ pins = pins_first_half

\* in a 4-bit run, the decoder waits for the second nibble of its second byte
C19_Witness ==
    /\ option = "4bit"
    /\ Len(out) = 1
    /\ pc = "wait_f"
    /\ state = "4bit_second_nibble"

\* C20: whenever the decoder is about to handle a falling edge in
\* 4bit_second_nibble, the pending nibble and the start sample were written
\* at the falling edge before: both are assigned, the pending nibble is the
\* byte of the last sample, and the start sample lies after the end of the
\* last annotation and is the index of that falling edge.
C20_PendingNibbleFresh ==
    state = "4bit_second_nibble"
        => /\ {"val_first_half", "start_sample", "pins_first_half"} \subseteq bound
           /\ pins = pins_first_half
           /\ val_first_half = LineByte(pins)
           /\ start_sample <= samplenum
           /\ pc = "wait_r_first" => start_sample = samplenum
           /\ pc = "wait_f" => start_sample < samplenum
           /\ out # << >> => Last(out).end < start_sample

\* right after an 8-bit function set selected 4-bit mode, the first nibble has
\* been taken and the decoder waits for the second
C20_Witness ==
    /\ option = "8bit"
    /\ Len(out) = 1
    /\ Last(out).ann[1] = ANN_FUNCTION_SET
    /\ pc = "wait_f"
    /\ state = "4bit_second_nibble"

\* C14: the decoder has no fatal-error or stuck state.  decode() never ends
\* with an exception, and while the sample source supplies the edges waited
\* for (the sample stream has not ended) every wait for a rising edge leads
\* back to the wait for a falling edge and every completed transaction is
\* emitted.
C14_NoStuckState ==
    /\ [](pc # "aborted")
    /\ []<>(pc = "wait_f" \/ samplenum = MaxSample)
    /\ (pc \in RisingWaits /\ samplenum < MaxSample) ~> (pc = "wait_f")
    /\ (Completed /\ samplenum < MaxSample) ~> JustEmitted

\* a command write of the out-of-range value 270, reassembled in 4-bit mode,
\* has been completed and emitted
C14_Witness ==
    /\ JustEmitted
    /\ "val_second_half" \in bound
    /\ pins[PIN_RS] = 0 /\ pins[PIN_RW] = 0
    /\ val = 270

\* C13: decoding carries no state from one call of decode() to the next.  A
\* second call on the same Decoder, with the same bus-width option and given
\* the sample stream of the first call again, has after every edge put exactly
\* the annotations (start, end, category and labels) the first call had put
\* after that edge, whatever self.state and pending first nibble the first
\* call ended with.
C13_RunsAgree ==
    (run = 2 /\ pos > 0) => out = fed[pos].out

\* a 4-bit call that ended with a pending first nibble, after a completed
\* two-sample transaction, has been repeated in full
C13_Witness ==
    /\ run = 2
    /\ option = "4bit"
    /\ pos = Len(fed)
    /\ pos >= 5
    /\ fed[pos].state = "4bit_second_nibble"
    /\ fed[4].out # << >>
    /\ out = fed[4].out

\* C18: bits 0-3 of a second-nibble sample have no influence.  Of two 4-bit
\* calls of decode() whose sample streams differ only in the lines BIT_0 ..
\* BIT_3 of second-nibble samples, the second has after every edge put the
\* annotations and reached the self.state the first had after that edge.
C18_LowNibbleIgnored ==
    (run = 2 /\ pos > 0) => (out = fed[pos].out /\ state = fed[pos].state)

\* a two-sample transaction has been emitted by a second call whose second
\* nibble differed from the first call's in the line BIT_0
C18_Witness ==
    /\ run = 2
    /\ pos >= 4
    /\ fed[pos].edge = "r"
    /\ fed[pos - 1].edge = "f"
    /\ FedMode(pos - 1) = "4bit_second_nibble"
    /\ pins[PIN_BIT_0] # fed[pos - 1].pins[PIN_BIT_0]
    /\ out # << >>
    /\ Last(out).end = samplenum

====
